---- MODULE Spec2Model ----
(***************************************************************************)
(* Model of the embedding-similarity cache of jolym-backend:               *)
(*   utils/embedding_utils.py   generate_embedding, cosine_similarity,     *)
(*                              find_similar_roadmap                       *)
(*   utils/redis_cache.py       cache_key, get_from_cache, save_to_cache,  *)
(*                              delete_from_cache, clear_cache_with_prefix *)
(*   utils/ai_roadmap_generator.py  generate_roadmap                       *)
(*   routes/roadmap.py          create_roadmap_from_query (the gate)       *)
(*   schemas/models.py          RoadmapInDB                                *)
(*                                                                         *)
(* Strings are sequences of one-character strings.  A vector of integers   *)
(* is kept as its length (dim) and its components up to the last non-zero  *)
(* one (head); the components after head are 0.  A similarity is kept as   *)
(* the exact real number num / sqrt(densq), so that comparisons need no    *)
(* floating point.                                                         *)
(***************************************************************************)
EXTENDS Integers, Sequences, FiniteSets, TLC

VARIABLES
    \* ---- utils/redis_cache.py: module state and the networked store ----
    redis_client,        \* TRUE iff the module global redis_client is not None
    memory_defined,      \* TRUE iff the names memory_cache / cache_expiry exist
    memory_cache,        \* dict key -> value            (in-process store)
    cache_expiry,        \* dict key -> expiry timestamp (in-process store)
    redis_db,            \* the server's data: key -> [val, exp]
    redis_up,            \* TRUE iff the server answers the next command
    now,                 \* time.time(), in seconds
    last,                \* outcome of the latest Result Cache operation
    expect,              \* history: key -> what the latest successful put stored
    \* ---- utils/embedding_utils.py: module state ----
    EMBEDDINGS_SUPPORTED,
    embedder,            \* "ClipEmbedder" or "None"
    \* ---- the relational store and the running resolve calls ----
    roadmaps,            \* rows of table roadmaps
    call,                \* per worker: position and locals of its resolve call
    \* ---- harness for the pure functions ----
    fn,                  \* [op, in, out] of the latest pure-function application
    nops,                \* number of operations performed so far
    ncalls,              \* number of resolve calls started so far
    \* ---- the step-progress tables and the latest progress response ----
    roadmap_steps,          \* rows of table roadmap_steps
    user_roadmap_progress,  \* rows of table user_roadmap_progress
    progress_seq,           \* next value of user_roadmap_progress.id
    progress_out            \* the latest step-progress request and its response

vars == << redis_client, memory_defined, memory_cache, cache_expiry, redis_db,
           redis_up, now, last, expect, EMBEDDINGS_SUPPORTED, embedder,
           roadmaps, call, fn, nops, ncalls, roadmap_steps,
           user_roadmap_progress, progress_seq, progress_out >>

cacheVars == << redis_client, memory_defined, memory_cache, cache_expiry,
                redis_db, redis_up, now, last, expect, nops >>
embedVars == << EMBEDDINGS_SUPPORTED, embedder >>
gateVars  == << roadmaps, call, ncalls >>
progressVars == << roadmap_steps, user_roadmap_progress, progress_seq,
                   progress_out >>

(***************************************************************************)
(* Python values                                                           *)
(***************************************************************************)
None == [t |-> "None"]
PyTrue == [t |-> "bool", b |-> TRUE]
PyFalse == [t |-> "bool", b |-> FALSE]
PyInt(n) == [t |-> "int", n |-> n]
\* an exception leaving the function
Raise(name) == [t |-> "raise", exc |-> name]
IsRaise(x) == x.t = "raise"

Min(a, b) == IF a <= b THEN a ELSE b

\* "abc" as <<"a","b","c">>
IsPrefix(p, s) == Len(p) <= Len(s) /\ SubSeq(s, 1, Len(p)) = p

(***************************************************************************)
(* Vectors                                                                 *)
(***************************************************************************)
\* dimensionality of the sentinel vector
EmbedDim == 512

RECURSIVE Trim(_)
\* s without its trailing zeros
Trim(s) == IF s # << >> /\ s[Len(s)] = 0 THEN Trim(SubSeq(s, 1, Len(s) - 1)) ELSE s
\* the vector with the components s
V(s) == [dim |-> Len(s), head |-> Trim(s)]
\* [0.0] * n
ZeroVec(n) == [dim |-> n, head |-> << >>]
\* head followed by zeros, EmbedDim components in all
Pad(head) == [dim |-> EmbedDim, head |-> Trim(head)]
IsZero(v) == v.head = << >>
\* a Python list of floats
PyVec(v) == [t |-> "floats", vec |-> v]
IsVector(x) == x.t = "floats"
PyList(s) == [t |-> "list", items |-> s]

RECURSIVE SumHeads(_, _, _)
SumHeads(x, y, n) == IF n = 0 THEN 0 ELSE x[n] * y[n] + SumHeads(x, y, n - 1)
\* sum(a * b for a, b in zip(x, y)): zip stops at the shorter of the two, and
\* the products past either head are 0
SumProd(x, y) ==
    SumHeads(x.head, y.head, Min(Min(x.dim, y.dim), Min(Len(x.head), Len(y.head))))

(***************************************************************************)
(* cosine_similarity                                                       *)
(***************************************************************************)
\* the float 0.0
SimZero == [t |-> "sim", num |-> 0, densq |-> 1]
\* dot / (magnitude1 * magnitude2) with magnitude1 * magnitude2 = sqrt(densq)
DivideNoCheck(dot, densq) == [t |-> "sim", num |-> dot, densq |-> densq]
Divide(dot, densq) ==
    IF densq = 0 THEN Raise("ZeroDivisionError") ELSE DivideNoCheck(dot, densq)

\* cosine_similarity without the guard on the magnitudes
cosine_similarity_unguarded(embedding1, embedding2) ==
    IF embedding1.dim = 0 \/ embedding2.dim = 0 THEN SimZero
    ELSE Divide(SumProd(embedding1, embedding2),
                SumProd(embedding1, embedding1) * SumProd(embedding2, embedding2))

\* cosine_similarity dividing by magnitude1 * magnitude1
cosine_similarity_one_magnitude(embedding1, embedding2) ==
    IF embedding1.dim = 0 \/ embedding2.dim = 0 THEN SimZero
    ELSE LET magsq1 == SumProd(embedding1, embedding1)
             magsq2 == SumProd(embedding2, embedding2)
         IN  IF magsq1 = 0 \/ magsq2 = 0 THEN SimZero
             ELSE Divide(SumProd(embedding1, embedding2), magsq1 * magsq1)

cosine_similarity(embedding1, embedding2) ==
    IF embedding1.dim = 0 \/ embedding2.dim = 0 THEN SimZero
    ELSE LET dot_product == SumProd(embedding1, embedding2)
             \* magnitude ** 2; magnitude == 0 exactly when this sum is 0
             magsq1 == SumProd(embedding1, embedding1)
             magsq2 == SumProd(embedding2, embedding2)
         IN  IF magsq1 = 0 \/ magsq2 = 0 THEN SimZero
             ELSE Divide(dot_product, magsq1 * magsq2)

\* x > y and x >= y for similarities (exact)
SimGt(x, y) ==
    LET a == x.num  b == y.num  p == y.densq  q == x.densq
    IN  IF a >= 0 /\ b < 0 THEN TRUE
        ELSE IF a < 0 /\ b >= 0 THEN FALSE
        ELSE IF a >= 0 THEN a * a * p > b * b * q
        ELSE a * a * p < b * b * q
SimGe(x, y) == ~SimGt(y, x)

(***************************************************************************)
(* The embedding provider: ClipEmbedder and generate_embedding             *)
(***************************************************************************)
PyStr(s) == [t |-> "str", s |-> s]
\* a JSON object of the response that may hold the key 'text_features'
Item(has, tf) == [has_tf |-> has, tf |-> tf]

\* str.strip() applied to the front, then to the back
Whitespace == {" ", "\n"}
RECURSIVE LStrip(_)
LStrip(s) == IF s # << >> /\ Head(s) \in Whitespace THEN LStrip(Tail(s)) ELSE s
RECURSIVE RStrip(_)
RStrip(s) ==
    IF s # << >> /\ s[Len(s)] \in Whitespace
    THEN RStrip(SubSeq(s, 1, Len(s) - 1)) ELSE s
Strip(s) == RStrip(LStrip(s))
\* text.replace("\n", " ").strip()
CleanText(text) ==
    Strip([i \in 1..Len(text) |-> IF text[i] = "\n" THEN " " ELSE text[i]])

\* what the HTTP call of get_text_embeddings can come back with
ProviderHeads == { <<3, 4>>, <<4, 3>>, <<0, 5>> }
Responses ==
    { [kind |-> "conn_error"], [kind |-> "http_error"], [kind |-> "not_json"],
      [kind |-> "json", body |-> [t |-> "dict"]],
      [kind |-> "json", body |-> PyList(<< >>)],
      [kind |-> "json", body |-> PyList(<< Item(FALSE, None) >>)],
      [kind |-> "json", body |-> PyList(<< Item(TRUE, None) >>)],
      [kind |-> "json", body |-> PyList(<< Item(TRUE, PyStr(<<"n", "a">>)) >>)],
      [kind |-> "json", body |-> PyList(<< Item(TRUE, PyVec(V(<< >>))) >>)],
      [kind |-> "json", body |-> PyList(<< Item(TRUE, PyVec(V(<<3, 4>>))) >>)] }
    \cup { [kind |-> "json", body |-> PyList(<< Item(TRUE, PyVec(Pad(h))) >>)]
           : h \in ProviderHeads }
\* the responses that are a well-formed embedding
GoodResponses ==
    { [kind |-> "json", body |-> PyList(<< Item(TRUE, PyVec(Pad(h))) >>)]
      : h \in ProviderHeads }

\* ClipEmbedder.get_text_embeddings: the parsed body, or the exception re-raised
get_text_embeddings(resp) ==
    IF resp.kind = "json" THEN resp.body ELSE Raise(resp.kind)

\* the sentinel, [0.0] * 512
Sentinel == PyVec(ZeroVec(EmbedDim))

\* ClipEmbedder.get_text_embedding with the bare text_features returned,
\* whatever the lookups raise
get_text_embedding_nocatch(resp) ==
    LET results == get_text_embeddings(resp)
    IN  IF IsRaise(results) THEN results
        ELSE IF results.t # "list" THEN Raise("KeyError")
        ELSE IF Len(results.items) = 0 THEN Raise("IndexError")
        ELSE IF ~results.items[1].has_tf THEN Raise("KeyError")
        ELSE results.items[1].tf

\* ClipEmbedder.get_text_embedding: results[0]['text_features'], or the sentinel
\* on any exception
get_text_embedding(resp) ==
    LET r == get_text_embedding_nocatch(resp)
    IN  IF IsRaise(r) THEN Sentinel ELSE r

\* len(x) is defined for lists and strings
HasLen(x) == x.t \in {"list", "floats", "str"}

\* generate_embedding(text) when the HTTP call comes back with resp
generate_embedding(supported, emb, resp) ==
    IF ~supported \/ emb = "None" THEN Sentinel
    ELSE LET embedding == get_text_embedding(resp)
         IN  \* logger.info(... len(embedding) ...) raises TypeError, caught
             IF ~HasLen(embedding) THEN Sentinel ELSE embedding

(***************************************************************************)
(* Python dicts as functions                                               *)
(***************************************************************************)
DictSet(d, k, v) == [x \in DOMAIN d \cup {k} |-> IF x = k THEN v ELSE d[x]]
DictDel(d, ks) == [x \in DOMAIN d \ ks |-> d[x]]

(***************************************************************************)
(* utils/redis_cache.py                                                    *)
(***************************************************************************)
\* DEFAULT_TTL = 60 * 60 * 24
DEFAULT_TTL == 86400

RECURSIVE JoinColon(_)
\* ':'.join(str(arg) for arg in args)
JoinColon(args) ==
    IF args = << >> THEN << >>
    ELSE IF Len(args) = 1 THEN args[1]
    ELSE args[1] \o <<":">> \o JoinColon(Tail(args))
\* f"{prefix}:{':'.join(str(arg) for arg in args)}"
cache_key(prefix, args) == prefix \o <<":">> \o JoinColon(args)

\* json.dumps: dicts, lists, tuples, strings and numbers have a text, a tuple's
\* text is that of a list, any other object raises TypeError
JsonSerializable(v) == v.t \in {"dict", "list", "floats", "tuple", "str", "int"}
json_dumps(v) ==
    IF ~JsonSerializable(v) THEN Raise("TypeError")
    ELSE [t |-> "json_text",
          of |-> IF v.t = "tuple" THEN PyList(v.items) ELSE v]
\* json.loads of a text json.dumps wrote
json_loads(text) == text.of

\* Python truth of `if data:` / `if not keys:`
Truthy(v) ==
    CASE v.t = "None" -> FALSE
      [] v.t = "bool" -> v.b
      [] v.t = "int" -> v.n # 0
      [] v.t \in {"list", "tuple"} -> Len(v.items) # 0
      [] v.t = "floats" -> v.vec.dim # 0
      [] v.t = "str" -> Len(v.s) # 0
      [] v.t = "dict" -> DOMAIN v.items # {}
      [] OTHER -> TRUE

RECURSIVE GlobMatch(_, _)
\* the KEYS pattern match of the networked store: * any run, ? any character
GlobMatch(pat, s) ==
    IF pat = << >> THEN s = << >>
    ELSE IF Head(pat) = "*"
         THEN GlobMatch(Tail(pat), s) \/ (s # << >> /\ GlobMatch(pat, Tail(s)))
    ELSE IF Head(pat) = "?"
         THEN s # << >> /\ GlobMatch(Tail(pat), Tail(s))
    ELSE s # << >> /\ Head(s) = Head(pat) /\ GlobMatch(Tail(pat), Tail(s))

\* the keys the server holds and has not expired
RedisLive == { k \in DOMAIN redis_db : redis_db[k].exp > now }
\* redis_client.keys(f"{prefix}:*")
RedisKeys(prefix) ==
    { k \in RedisLive : GlobMatch(prefix \o <<":", "*">>, k) }
\* [k for k in memory_cache if k.startswith(prefix_full)]
MemoryKeys(prefix) ==
    { k \in DOMAIN memory_cache : IsPrefix(prefix \o <<":">>, k) }

\* the record kept of an operation, for the properties
\* the entries of the store in use: key -> [val, exp]
Entries ==
    IF redis_client THEN redis_db
    ELSE IF ~memory_defined THEN [x \in {} |-> None]
    ELSE [k \in DOMAIN memory_cache |->
            [val |-> memory_cache[k],
             exp |-> IF k \in DOMAIN cache_expiry THEN cache_expiry[k] ELSE -1]]
\* TRUE iff an operation issued now gets an answer from its store
StoreAnswers == IF redis_client THEN redis_up ELSE memory_defined

Outcome(op, key, val, ttl, ret) ==
    [op |-> op, key |-> key, val |-> val, ttl |-> ttl, at |-> now, ret |-> ret,
     answered |-> StoreAnswers, before |-> Entries]

\* get_from_cache still handing out an entry at the second of its expiry
get_ret_inclusive(key) ==
    IF redis_client \/ ~memory_defined THEN None
    ELSE IF key \in DOMAIN memory_cache
            /\ (key \notin DOMAIN cache_expiry \/ cache_expiry[key] >= now)
         THEN memory_cache[key]
         ELSE None
\* get_from_cache leaving an expired entry in memory_cache
get_memory_cache_keep(key) == memory_cache
\* get_from_cache leaving the expiry of an evicted entry behind
get_cache_expiry_keep(key) == cache_expiry

\* ---- get_from_cache(key): the value returned, and the stores after it ----
get_ret(key) ==
    IF redis_client
    THEN IF ~redis_up THEN None                      \* except Exception
         ELSE IF key \in RedisLive /\ Truthy(redis_db[key].val)
              THEN json_loads(redis_db[key].val)
              ELSE None
    ELSE IF ~memory_defined THEN Raise("NameError")   \* outside any try
    ELSE IF key \in DOMAIN memory_cache
            /\ (key \notin DOMAIN cache_expiry \/ cache_expiry[key] > now)
         THEN memory_cache[key]
         ELSE None
\* the in-process eviction of an expired entry on lookup
get_evicts(key) ==
    /\ ~redis_client /\ memory_defined
    /\ key \in DOMAIN memory_cache
    /\ ~(key \notin DOMAIN cache_expiry \/ cache_expiry[key] > now)
get_memory_cache(key) ==
    IF get_evicts(key) THEN DictDel(memory_cache, {key}) ELSE memory_cache
get_cache_expiry(key) ==
    IF get_evicts(key) THEN DictDel(cache_expiry, {key}) ELSE cache_expiry

\* ---- save_to_cache(key, data, ttl) ----
\* SETEX refuses a ttl that is not positive
save_redis_ok(data, ttl) ==
    redis_up /\ ~IsRaise(json_dumps(data)) /\ ttl > 0
save_ret(key, data, ttl) ==
    IF redis_client
    THEN IF save_redis_ok(data, ttl) THEN PyTrue ELSE PyFalse
    ELSE IF ~memory_defined THEN PyFalse               \* NameError, caught
    ELSE PyTrue
save_memory_cache(key, data, ttl) ==
    IF ~redis_client /\ memory_defined
    THEN DictSet(memory_cache, key, data) ELSE memory_cache
\* save_cache_expiry recording the time of the put instead of the expiry
save_cache_expiry_no_ttl(key, data, ttl) ==
    IF ~redis_client /\ memory_defined
    THEN DictSet(cache_expiry, key, now) ELSE cache_expiry
save_cache_expiry(key, data, ttl) ==
    IF ~redis_client /\ memory_defined
    THEN DictSet(cache_expiry, key, now + ttl) ELSE cache_expiry
save_redis_db(key, data, ttl) ==
    IF redis_client /\ save_redis_ok(data, ttl)
    THEN DictSet(redis_db, key, [val |-> json_dumps(data), exp |-> now + ttl])
    ELSE redis_db

\* ---- delete_from_cache(key) ----
delete_ret(key) ==
    IF redis_client
    THEN IF redis_up /\ key \in RedisLive THEN PyTrue ELSE PyFalse
    ELSE IF ~memory_defined THEN PyFalse               \* NameError, caught
    ELSE IF key \in DOMAIN memory_cache THEN PyTrue ELSE PyFalse

\* ---- clear_cache_with_prefix(prefix) ----
clear_removed(prefix) ==
    IF redis_client
    THEN IF redis_up THEN RedisKeys(prefix) ELSE {}
    ELSE IF ~memory_defined THEN {} ELSE MemoryKeys(prefix)
clear_ret(prefix) == PyInt(Cardinality(clear_removed(prefix)))

\* the three stores with the keys ks removed by the store in use
Remove(ks) ==
    /\ memory_cache' = IF redis_client THEN memory_cache
                       ELSE DictDel(memory_cache, ks)
    /\ cache_expiry' = IF redis_client THEN cache_expiry
                       ELSE DictDel(cache_expiry, ks)
    /\ redis_db' = IF redis_client THEN DictDel(redis_db, ks) ELSE redis_db

(***************************************************************************)
(* Quiet values of the parts a specification does not exercise             *)
(***************************************************************************)
NoOp == [op |-> "none"]
EmptyDict == [x \in {} |-> None]

CacheQuiet ==
    /\ redis_client = FALSE
    /\ memory_defined = TRUE
    /\ memory_cache = EmptyDict
    /\ cache_expiry = EmptyDict
    /\ redis_db = EmptyDict
    /\ redis_up = FALSE
    /\ now = 0
    /\ last = NoOp
    /\ expect = EmptyDict
    /\ nops = 0
EmbedQuiet ==
    /\ EMBEDDINGS_SUPPORTED = TRUE
    /\ embedder = "ClipEmbedder"
GateQuiet ==
    /\ roadmaps = {}
    /\ call = << >>
    /\ ncalls = 0
ProgressQuiet ==
    /\ roadmap_steps = {}
    /\ user_roadmap_progress = {}
    /\ progress_seq = 1
    /\ progress_out = None

(***************************************************************************)
(* SpecSim: cosine_similarity applied to bounded vectors                   *)
(***************************************************************************)
MaxComp == 1
MaxVecLen == 2
SmallVectors ==
    { V(s) : s \in UNION { [1..n -> (0 - MaxComp)..MaxComp] : n \in 0..MaxVecLen } }
SimVectors ==
    SmallVectors \cup { ZeroVec(EmbedDim), Pad(<<3, 4>>), Pad(<<0, 0, 5>>) }

\* the two arguments are drawn first, the function is applied once
InitSim ==
    /\ CacheQuiet /\ EmbedQuiet /\ GateQuiet
    /\ \E a \in SimVectors, b \in SimVectors :
          fn = [op |-> "args", a |-> a, b |-> b]
    /\ ProgressQuiet

ApplyCosine ==
    /\ fn.op = "args"
    /\ fn' = [op |-> "cosine_similarity", a |-> fn.a, b |-> fn.b,
              out |-> cosine_similarity(fn.a, fn.b),
              \* the same call with the arguments exchanged
              rev |-> cosine_similarity(fn.b, fn.a)]
    /\ UNCHANGED << cacheVars, embedVars, gateVars >>
    /\ UNCHANGED progressVars

NextSim == ApplyCosine
SpecSim == InitSim /\ [][NextSim]_vars

(***************************************************************************)
(* SpecEmbed: generate_embedding in every state of the embedding source    *)
(***************************************************************************)
Texts == { <<"a">>, <<"a", "\n", "b">>, <<" ", "a", "\n">>, << >> }

\* module import: ClipEmbedder() succeeds, or raises and leaves embedder None;
\* the text and the provider's answer to the coming call are drawn here
InitEmbed ==
    /\ CacheQuiet /\ GateQuiet
    /\ \E text \in Texts, resp \in Responses :
          fn = [op |-> "args", text |-> text, resp |-> resp]
    /\ \/ EMBEDDINGS_SUPPORTED = TRUE /\ embedder = "ClipEmbedder"
       \/ EMBEDDINGS_SUPPORTED = FALSE /\ embedder = "None"
    /\ ProgressQuiet

\* routes/roadmap.py startup(): a failing pgvector set-up switches embeddings off
Startup ==
    /\ EMBEDDINGS_SUPPORTED
    /\ EMBEDDINGS_SUPPORTED' = FALSE
    /\ UNCHANGED << cacheVars, embedder, gateVars, fn >>
    /\ UNCHANGED progressVars

ApplyEmbed ==
    /\ fn.op = "args"
    /\ fn' = [op |-> "generate_embedding", text |-> fn.text, resp |-> fn.resp,
              live |-> EMBEDDINGS_SUPPORTED /\ embedder # "None",
              sent |-> IF EMBEDDINGS_SUPPORTED /\ embedder # "None"
                       THEN PyStr(CleanText(fn.text)) ELSE None,
              out |-> generate_embedding(EMBEDDINGS_SUPPORTED, embedder, fn.resp)]
    /\ UNCHANGED << cacheVars, embedVars, gateVars >>
    /\ UNCHANGED progressVars

NextEmbed == Startup \/ ApplyEmbed
SpecEmbed == InitEmbed /\ [][NextEmbed]_vars

(***************************************************************************)
(* SpecCache: the Result Cache operations in every startup configuration   *)
(***************************************************************************)
MaxOps == 2
MaxTime == 2
MaxTtl == 1

\* {"id": n}
IdDict(n) == [t |-> "dict", items |-> [id |-> PyInt(n)]]
\* a value json.dumps refuses, as roadmap.__dict__ of get_roadmap
SaObject == [t |-> "object"]
CacheKeys == { <<"r", ":", "1">>, <<"r", "q", ":", "x">>, <<"o", ":", "1">> }
CacheValues == { IdDict(1), [t |-> "tuple", items |-> <<1>>], SaObject }
Prefixes == { <<"r">>, <<"o">>, <<"r", "*">> }
Ttls == 0..MaxTtl

\* lines 23-46 of redis_cache.py: the four ways the module import can end
StartupConfigs ==
    { \* REDIS_ENABLED false: the in-process store
      [client |-> FALSE, memory |-> TRUE, up |-> FALSE],
      \* enabled, ping answered
      [client |-> TRUE, memory |-> FALSE, up |-> TRUE],
      \* enabled, ping failed: redis_client was assigned before the ping
      [client |-> TRUE, memory |-> FALSE, up |-> FALSE],
      \* enabled, import redis failed: neither a client nor the two dicts
      [client |-> FALSE, memory |-> FALSE, up |-> FALSE] }

InitConfig(c) ==
    /\ redis_client = c.client
    /\ memory_defined = c.memory
    /\ redis_up = c.up
    /\ memory_cache = EmptyDict
    /\ cache_expiry = EmptyDict
    /\ redis_db = EmptyDict
    /\ now = 0
    /\ last = NoOp
    /\ expect = EmptyDict
    /\ nops = 0

InitCache ==
    /\ \E c \in StartupConfigs : InitConfig(c)
    /\ EmbedQuiet /\ GateQuiet
    /\ fn = NoOp
    /\ ProgressQuiet

\* what the Result Cache operations never touch
otherVars == << embedVars, gateVars, fn >>

Get(key) ==
    /\ nops < MaxOps
    /\ nops' = nops + 1
    /\ last' = Outcome("get", key, None, 0, get_ret(key))
    /\ memory_cache' = get_memory_cache(key)
    /\ cache_expiry' = get_cache_expiry(key)
    /\ UNCHANGED << redis_client, memory_defined, redis_db, redis_up, now, expect >>
    /\ UNCHANGED otherVars
    /\ UNCHANGED progressVars

Put(key, data, ttl) ==
    /\ nops < MaxOps
    /\ nops' = nops + 1
    /\ last' = Outcome("put", key, data, ttl, save_ret(key, data, ttl))
    /\ memory_cache' = save_memory_cache(key, data, ttl)
    /\ cache_expiry' = save_cache_expiry(key, data, ttl)
    /\ redis_db' = save_redis_db(key, data, ttl)
    /\ expect' = DictSet(expect, key,
                         [val |-> data, at |-> now, ttl |-> ttl,
                          ok |-> save_ret(key, data, ttl) = PyTrue])
    /\ UNCHANGED << redis_client, memory_defined, redis_up, now >>
    /\ UNCHANGED otherVars
    /\ UNCHANGED progressVars

Delete(key) ==
    /\ nops < MaxOps
    /\ nops' = nops + 1
    /\ last' = Outcome("delete", key, None, 0, delete_ret(key))
    /\ Remove(IF delete_ret(key) = PyTrue THEN {key} ELSE {})
    /\ expect' = DictDel(expect, {key})
    /\ UNCHANGED << redis_client, memory_defined, redis_up, now >>
    /\ UNCHANGED otherVars
    /\ UNCHANGED progressVars

ClearPrefix(prefix) ==
    /\ nops < MaxOps
    /\ nops' = nops + 1
    /\ last' = Outcome("clear", prefix, None, 0, clear_ret(prefix))
    /\ Remove(clear_removed(prefix))
    /\ expect' = DictDel(expect, clear_removed(prefix)
                           \cup { k \in DOMAIN expect : IsPrefix(prefix \o <<":">>, k) })
    /\ UNCHANGED << redis_client, memory_defined, redis_up, now >>
    /\ UNCHANGED otherVars
    /\ UNCHANGED progressVars

\* one second passes; the networked store drops what has expired by itself
Tick(max) ==
    /\ now < max
    /\ now' = now + 1
    /\ redis_db' = DictDel(redis_db, { k \in DOMAIN redis_db : redis_db[k].exp <= now + 1 })
    /\ UNCHANGED << redis_client, memory_defined, memory_cache, cache_expiry,
                    redis_up, last, expect, nops >>
    /\ UNCHANGED otherVars
    /\ UNCHANGED progressVars

\* the connection to the networked store breaks, or comes back
ServerDown ==
    /\ redis_client /\ redis_up
    /\ redis_up' = FALSE
    /\ UNCHANGED << redis_client, memory_defined, memory_cache, cache_expiry,
                    redis_db, now, last, expect, nops >>
    /\ UNCHANGED otherVars
    /\ UNCHANGED progressVars
ServerUp ==
    /\ redis_client /\ ~redis_up
    /\ redis_up' = TRUE
    /\ UNCHANGED << redis_client, memory_defined, memory_cache, cache_expiry,
                    redis_db, now, last, expect, nops >>
    /\ UNCHANGED otherVars
    /\ UNCHANGED progressVars

NextCache ==
    \/ \E k \in CacheKeys : Get(k)
    \/ \E k \in CacheKeys, v \in CacheValues, ttl \in Ttls : Put(k, v, ttl)
    \/ \E k \in CacheKeys : Delete(k)
    \/ \E p \in Prefixes : ClearPrefix(p)
    \/ Tick(MaxTime)
    \/ ServerDown
    \/ ServerUp

SpecCache == InitCache /\ [][NextCache]_vars

(***************************************************************************)
(* SpecMemory: the in-process store (REDIS_ENABLED false)                  *)
(***************************************************************************)
\* the ttl arguments, those that are not positive included
MemoryTtls == (0 - 1)..MaxTtl

InitMemory ==
    /\ InitConfig([client |-> FALSE, memory |-> TRUE, up |-> FALSE])
    /\ EmbedQuiet /\ GateQuiet
    /\ fn = NoOp
    /\ ProgressQuiet

NextMemory ==
    \/ \E k \in CacheKeys : Get(k)
    \/ \E k \in CacheKeys, v \in CacheValues, ttl \in MemoryTtls : Put(k, v, ttl)
    \/ \E k \in CacheKeys : Delete(k)
    \/ \E p \in Prefixes : ClearPrefix(p)
    \/ Tick(MaxTime)

SpecMemory == InitMemory /\ [][NextMemory]_vars

(***************************************************************************)
(* SpecFallback: the Result Cache in a process that found no usable        *)
(* networked store at startup, the server staying as it was                *)
(***************************************************************************)
\* disabled by configuration, ping failed, import failed
FallbackConfigs == { c \in StartupConfigs : ~(c.client /\ c.up) }

InitFallback ==
    /\ \E c \in FallbackConfigs : InitConfig(c)
    /\ EmbedQuiet /\ GateQuiet
    /\ fn = NoOp
    /\ ProgressQuiet

NextFallback ==
    \/ \E k \in CacheKeys : Get(k)
    \/ \E k \in CacheKeys, v \in CacheValues, ttl \in Ttls : Put(k, v, ttl)
    \/ \E k \in CacheKeys : Delete(k)
    \/ \E p \in Prefixes : ClearPrefix(p)
    \/ Tick(MaxTime)

SpecFallback == InitFallback /\ [][NextFallback]_vars

(***************************************************************************)
(* schemas/models.py: the mapped class RoadmapInDB                         *)
(***************************************************************************)
\* the attributes class RoadmapInDB defines (columns and relationships)
RoadmapInDB_attrs == {"id", "name", "description", "query_text", "steps", "prompt"}
\* RoadmapInDB(**kwargs): the declarative constructor refuses a keyword the
\* class has no attribute for
RoadmapInDB_init(kwargs) ==
    IF kwargs \subseteq RoadmapInDB_attrs THEN None ELSE Raise("TypeError")
\* ResourceInDB(title, url, source, description, step_id) flushed: the column
\* step_roadmap_id is NOT NULL and is given no value
ResourceInDB_flush == Raise("IntegrityError")
\* roadmap.embedding on a loaded instance
roadmap_embedding(row) ==
    IF "embedding" \in RoadmapInDB_attrs THEN row.embedding
    ELSE Raise("AttributeError")

(***************************************************************************)
(* find_similar_roadmap                                                    *)
(***************************************************************************)
\* SIMILARITY_THRESHOLD = 0.85, as ThresholdNum / ThresholdDen
ThresholdNum == 85
ThresholdDen == 100
SIMILARITY_THRESHOLD ==
    [t |-> "sim", num |-> ThresholdNum, densq |-> ThresholdDen * ThresholdDen]

\* cosine_similarity on Python values: multiplying a character of a string by
\* a float raises TypeError
py_cosine(q, e) ==
    IF ~Truthy(q) \/ ~Truthy(e) THEN SimZero
    ELSE IF q.t # "floats" \/ e.t # "floats" THEN Raise("TypeError")
    ELSE cosine_similarity(q.vec, e.vec)

RECURSIVE ScanCandidates_no_threshold(_, _, _, _, _, _)
\* the scan returning the best candidate whatever the threshold
ScanCandidates_no_threshold(q, cands, i, best_similarity, best_roadmap_id, similarity_threshold) ==
    IF i > Len(cands) THEN best_roadmap_id
    ELSE LET e == cands[i].embedding
         IN  IF IsRaise(e) THEN e
             ELSE IF ~Truthy(e)
                  THEN ScanCandidates_no_threshold(q, cands, i + 1, best_similarity,
                                                   best_roadmap_id, similarity_threshold)
             ELSE LET similarity == py_cosine(q, e)
                  IN  IF IsRaise(similarity) THEN similarity
                      ELSE IF SimGt(similarity, best_similarity)
                           THEN ScanCandidates_no_threshold(q, cands, i + 1, similarity,
                                    PyInt(cands[i].id), similarity_threshold)
                           ELSE ScanCandidates_no_threshold(q, cands, i + 1,
                                    best_similarity, best_roadmap_id,
                                    similarity_threshold)

RECURSIVE ScanCandidates_ge(_, _, _, _, _, _)
\* the scan taking a candidate that equals the best similarity so far
ScanCandidates_ge(q, cands, i, best_similarity, best_roadmap_id, similarity_threshold) ==
    IF i > Len(cands)
    THEN IF SimGe(best_similarity, similarity_threshold)
         THEN best_roadmap_id ELSE None
    ELSE LET e == cands[i].embedding
         IN  IF IsRaise(e) THEN e
             ELSE IF ~Truthy(e)
                  THEN ScanCandidates_ge(q, cands, i + 1, best_similarity,
                                         best_roadmap_id, similarity_threshold)
             ELSE LET similarity == py_cosine(q, e)
                  IN  IF IsRaise(similarity) THEN similarity
                      ELSE IF SimGe(similarity, best_similarity)
                           THEN ScanCandidates_ge(q, cands, i + 1, similarity,
                                    PyInt(cands[i].id), similarity_threshold)
                           ELSE ScanCandidates_ge(q, cands, i + 1, best_similarity,
                                    best_roadmap_id, similarity_threshold)

RECURSIVE ScanCandidates(_, _, _, _, _, _)
\* lines 159-176: the scan over cands[i..], cands[i] = [id, embedding] with
\* embedding the outcome of reading roadmap.embedding
ScanCandidates(q, cands, i, best_similarity, best_roadmap_id, similarity_threshold) ==
    IF i > Len(cands)
    THEN IF SimGe(best_similarity, similarity_threshold)
         THEN best_roadmap_id ELSE None
    ELSE LET e == cands[i].embedding
         IN  IF IsRaise(e) THEN e
             ELSE IF ~Truthy(e)
                  THEN ScanCandidates(q, cands, i + 1, best_similarity,
                                      best_roadmap_id, similarity_threshold)
             ELSE LET similarity == py_cosine(q, e)
                  IN  IF IsRaise(similarity) THEN similarity
                      ELSE IF SimGt(similarity, best_similarity)
                           THEN ScanCandidates(q, cands, i + 1, similarity,
                                               PyInt(cands[i].id), similarity_threshold)
                           ELSE ScanCandidates(q, cands, i + 1, best_similarity,
                                               best_roadmap_id, similarity_threshold)

RECURSIVE RowsById(_)
\* db_session.query(roadmap_model).all(), in ascending id
RowsById(rows) ==
    IF rows = {} THEN << >>
    ELSE LET r == CHOOSE x \in rows : \A y \in rows : x.id <= y.id
         IN  <<r>> \o RowsById(rows \ {r})

\* the rows as the loop of find_similar_roadmap meets them when roadmap_model
\* is RoadmapInDB
Candidates(rows) ==
    LET all == RowsById(rows)
    IN  [i \in 1..Len(all) |->
            [id |-> all[i].id, embedding |-> roadmap_embedding(all[i])]]

\* find_similar_roadmap when generate_embedding returns q and the loop meets
\* cands: the id found, or None; any exception is logged and turned into None
\* (lines 178-180)
find_similar_roadmap(supported, q, cands, similarity_threshold) ==
    IF ~supported THEN None
    ELSE LET found == ScanCandidates(q, cands, 1, SimZero, None,
                                     similarity_threshold)
         IN  IF IsRaise(found) THEN None ELSE found

(***************************************************************************)
(* SpecMatch: find_similar_roadmap over bounded candidate lists, for a      *)
(* roadmap_model whose instances carry the attribute embedding              *)
(***************************************************************************)
MaxCands == 2
\* thresholds as num / sqrt(densq): 0, 0.6, 0.85, 1
Thresholds ==
    { SimZero, [t |-> "sim", num |-> 3, densq |-> 25], SIMILARITY_THRESHOLD,
      [t |-> "sim", num |-> 1, densq |-> 1] }
MatchVectors ==
    { V(<<1, 0>>), V(<<0, 1>>), V(<<-1, 0>>), V(<<3, 4>>), V(<<4, 3>>), V(<<0, 0>>) }
\* what roadmap.embedding may be: a vector, an empty list, None
StoredEmbeddings == { PyVec(v) : v \in MatchVectors } \cup { PyVec(V(<< >>)), None }
CandidateLists ==
    UNION { { [i \in 1..n |-> [id |-> i, embedding |-> f[i]]]
              : f \in [1..n -> StoredEmbeddings] } : n \in 0..MaxCands }

\* the query vector, the candidates and the threshold are drawn first
InitMatch ==
    /\ CacheQuiet /\ EmbedQuiet /\ GateQuiet
    /\ \E v \in MatchVectors, cands \in CandidateLists, thr \in Thresholds :
          fn = [op |-> "args", q |-> PyVec(v), cands |-> cands, thr |-> thr]
    /\ ProgressQuiet

ApplyMatch ==
    /\ fn.op = "args"
    /\ fn' = [op |-> "find_similar_roadmap", q |-> fn.q, cands |-> fn.cands,
              thr |-> fn.thr,
              out |-> find_similar_roadmap(EMBEDDINGS_SUPPORTED, fn.q, fn.cands,
                                           fn.thr)]
    /\ UNCHANGED << cacheVars, embedVars, gateVars >>
    /\ UNCHANGED progressVars

NextMatch == ApplyMatch
SpecMatch == InitMatch /\ [][NextMatch]_vars

(***************************************************************************)
(* SpecProgress: the step-progress handlers of routes/roadmap.py and       *)
(* routes/dashboard.py over tables roadmap_steps and user_roadmap_progress *)
(***************************************************************************)
MaxProgressRows == 3
Users == {1, 2}
ProgressRoadmaps == {1, 2}
StepIds == {"1-1", "1-2"}

\* a row of roadmap_steps: the primary key is (roadmap_id, id)
Step(r, s) == [roadmap_id |-> r, id |-> s]
\* the steps the store holds: one roadmap, or two that share a step id
InitialSteps ==
    { {Step(1, "1-1")},
      {Step(1, "1-1"), Step(2, "1-1")},
      {Step(1, "1-1"), Step(1, "1-2"), Step(2, "1-1")} }

\* a row of user_roadmap_progress; a column given no value is NULL (None)
UserRoadmapProgress(id, u, r, s, c) ==
    [id |-> id, user_id |-> u, step_roadmap_id |-> r, step_id |-> s,
     completed |-> c]

NotFound == [t |-> "HTTPException", status |-> 404]
Message(m) == [t |-> "dict", message |-> m]
ProgressRequest(op, u, r, s, ret) ==
    [op |-> op, user |-> u, roadmap_id |-> r, step_id |-> s, ret |-> ret]

\* the query for the step (roadmap_id, step_id) finds a row
StepFound(r, s) == Step(r, s) \in roadmap_steps

\* the rows the queries of lines 484-487 and 527-530 can give as .first():
\* the filter is on the user and the step id, not on the roadmap
ProgressByStepId(u, s) ==
    { p \in user_roadmap_progress : p.user_id = u /\ p.step_id = s }
\* the rows the query of dashboard.py lines 205-209 can give as .first()
ProgressByStep(u, r, s) ==
    { p \in user_roadmap_progress :
        p.user_id = u /\ p.step_roadmap_id = PyInt(r) /\ p.step_id = s }

InitProgress ==
    /\ CacheQuiet /\ EmbedQuiet /\ GateQuiet
    /\ fn = NoOp
    /\ roadmap_steps \in InitialSteps
    /\ user_roadmap_progress = {}
    /\ progress_seq = 1
    /\ progress_out = None

\* routes/roadmap.py mark_step_complete
mark_step_complete(u, r, s) ==
    /\ IF ~StepFound(r, s)
       THEN /\ progress_out' = ProgressRequest("mark_step_complete", u, r, s, NotFound)
            /\ UNCHANGED << user_roadmap_progress, progress_seq >>
       ELSE /\ progress_out' = ProgressRequest("mark_step_complete", u, r, s,
                                               Message("Step marked as complete"))
            /\ IF ProgressByStepId(u, s) # {}
               THEN /\ \E p \in ProgressByStepId(u, s) :
                         user_roadmap_progress' =
                             (user_roadmap_progress \ {p})
                                 \cup {[p EXCEPT !.completed = TRUE]}
                    /\ UNCHANGED progress_seq
               ELSE /\ progress_seq <= MaxProgressRows
                    /\ user_roadmap_progress' = user_roadmap_progress \cup
                         {UserRoadmapProgress(progress_seq, u, None, s, TRUE)}
                    /\ progress_seq' = progress_seq + 1
    /\ UNCHANGED << cacheVars, embedVars, gateVars, fn, roadmap_steps >>

\* routes/roadmap.py mark_step_incomplete
mark_step_incomplete(u, r, s) ==
    /\ IF ProgressByStepId(u, s) = {}
       THEN /\ progress_out' = ProgressRequest("mark_step_incomplete", u, r, s,
                                               Message("Step is not marked as complete"))
            /\ UNCHANGED user_roadmap_progress
       ELSE /\ progress_out' = ProgressRequest("mark_step_incomplete", u, r, s,
                                               Message("Step marked as incomplete"))
            /\ \E p \in ProgressByStepId(u, s) :
                  user_roadmap_progress' = user_roadmap_progress \ {p}
    /\ UNCHANGED << cacheVars, embedVars, gateVars, fn, roadmap_steps,
                    progress_seq >>

\* routes/dashboard.py update_step_progress
update_step_progress(u, r, s, completed) ==
    /\ IF ~StepFound(r, s)
       THEN /\ progress_out' = ProgressRequest("update_step_progress", u, r, s, NotFound)
            /\ UNCHANGED << user_roadmap_progress, progress_seq >>
       ELSE IF ProgressByStep(u, r, s) # {}
       THEN /\ \E p \in ProgressByStep(u, r, s) :
                 user_roadmap_progress' =
                     (user_roadmap_progress \ {p})
                         \cup {[p EXCEPT !.completed = completed]}
            /\ progress_out' = ProgressRequest("update_step_progress", u, r, s,
                                  [t |-> "ProgressUpdateResponse", roadmap_id |-> r,
                                   step_id |-> s, completed |-> completed])
            /\ UNCHANGED progress_seq
       ELSE /\ progress_seq <= MaxProgressRows
            /\ user_roadmap_progress' = user_roadmap_progress \cup
                 {UserRoadmapProgress(progress_seq, u, PyInt(r), s, completed)}
            /\ progress_seq' = progress_seq + 1
            /\ progress_out' = ProgressRequest("update_step_progress", u, r, s,
                                  [t |-> "ProgressUpdateResponse", roadmap_id |-> r,
                                   step_id |-> s, completed |-> completed])
    /\ UNCHANGED << cacheVars, embedVars, gateVars, fn, roadmap_steps >>

\* the steps of roadmap r (lines 558-560)
StepsOfRoadmap(r) == { st \in roadmap_steps : st.roadmap_id = r }
\* the rows of lines 569-573: of the user, completed, with the step id of one
\* of the steps
CompletedRows(u, steps) ==
    { p \in user_roadmap_progress :
        /\ p.user_id = u
        /\ p.step_id \in { st.id : st \in steps }
        /\ p.completed = TRUE }
\* int(len(completed) / len(steps) * 100)
progress_percent(ncompleted, nsteps) ==
    IF nsteps # 0 THEN (ncompleted * 100) \div nsteps ELSE 0

\* routes/roadmap.py get_roadmap_progress
get_roadmap_progress(u, r) ==
    /\ LET steps == StepsOfRoadmap(r)
           completed == CompletedRows(u, steps)
       IN  progress_out' = ProgressRequest("get_roadmap_progress", u, r, None,
               IF steps = {} THEN NotFound
               ELSE [t |-> "dict",
                     total_steps |-> Cardinality(steps),
                     completed_steps |-> Cardinality(completed),
                     progress_percent |->
                         progress_percent(Cardinality(completed),
                                          Cardinality(steps)),
                     \* the step ids that occur in the list
                     completed_step_ids |-> { p.step_id : p \in completed }])
    /\ UNCHANGED << cacheVars, embedVars, gateVars, fn, roadmap_steps,
                    user_roadmap_progress, progress_seq >>

NextProgress ==
    \/ \E u \in Users, r \in ProgressRoadmaps, s \in StepIds :
          mark_step_complete(u, r, s)
    \/ \E u \in Users, r \in ProgressRoadmaps, s \in StepIds :
          mark_step_incomplete(u, r, s)
    \/ \E u \in Users, r \in ProgressRoadmaps, s \in StepIds, c \in BOOLEAN :
          update_step_progress(u, r, s, c)
    \/ \E u \in Users, r \in ProgressRoadmaps : get_roadmap_progress(u, r)

SpecProgress == InitProgress /\ [][NextProgress]_vars

(***************************************************************************)
(* generate_roadmap                                                        *)
(***************************************************************************)
\* what generate_roadmap(query) can return: None (unsupported, API error, text
\* that is no JSON), or whatever JSON value the text parses to
UsableData == [t |-> "dict", items |-> [name |-> PyStr(<<"n">>)]]
\* a roadmap of one step that has one resource
DataWithResource ==
    [t |-> "dict",
     items |-> [name |-> PyStr(<<"n">>),
                steps |-> << [id |-> PyStr(<<"1-1">>), resources |-> 1] >>]]
GeneratorOutcomes ==
    { None, [t |-> "dict", items |-> EmptyDict], UsableData, DataWithResource,
      PyList(<<1>>) }

\* the exceptions of create_roadmap_from_query
GenerationFailed == [t |-> "HTTPException", status |-> 500, detail |-> "Failed to generate roadmap"]
GenericError == [t |-> "HTTPException", status |-> 500,
                 detail |-> "An error occurred while generating the roadmap"]
IsError(r) == r.t = "HTTPException"
Returned(id) == [t |-> "roadmap", id |-> id]

(***************************************************************************)
(* Spec: create_roadmap_from_query (resolve), with the store and the cache *)
(***************************************************************************)
MaxCalls == 2
MaxGateTime == 1
\* the request handlers that may run a resolve call at the same time (workers
\* sharing the store and the cache)
Workers == {"w1", "w2"}
\* the query texts resolve is called with
Queries == { <<"y">> }
CACHE_PREFIX_ROADMAP_QUERY ==
    <<"r", "o", "a", "d", "m", "a", "p", "_", "q", "u", "e", "r", "y">>
QueryKey(q) == cache_key(CACHE_PREFIX_ROADMAP_QUERY, <<q>>)

\* a row of table roadmaps; embedding is the value of a column of that name
\* where the table has one (the mapped class has none)
Row(id, q, e) == [id |-> id, query_text |-> q, embedding |-> e]
InitialStores ==
    { {},
      { Row(1, PyStr(<<"x">>), PyVec(Pad(<<3, 4>>))), Row(2, None, None) } }
\* the provider's answers used for the gate
GateResponses ==
    { [kind |-> "conn_error"],
      [kind |-> "json", body |-> PyList(<< Item(TRUE, PyVec(Pad(<<3, 4>>))) >>)] }

Active(w) == call[w].pc \notin {"idle", "done"}
WorkerBefore(u, w) == u = "w1" /\ w = "w2"
IdleCall ==
    [pc |-> "idle", query |-> << >>, n |-> 0, fromEmpty |-> FALSE,
     overlapped |-> FALSE, held |-> None, heldRow |-> FALSE,
     embedCalls |-> 0, genCalls |-> 0, searched |-> None, similar |-> None,
     eligible |-> {}, data |-> None, embedding |-> None, persisted |-> {},
     wrote |-> {}, result |-> None, prior |-> None]

\* GET key of the entry for k as a caller of the cache would see it
EntryValue(k) ==
    IF redis_client THEN json_loads(Entries[k].val) ELSE Entries[k].val
HoldsUnexpired(k) == k \in DOMAIN Entries /\ Entries[k].exp > now

\* what the networked store may hold when the process starts: entries for
\* query keys as resolve writes them, left by earlier processes
StoredEntry(q, id, exp) ==
    [x \in {QueryKey(q)} |-> [val |-> json_dumps(IdDict(id)), exp |-> exp]]
InitialRedis ==
    { EmptyDict,
      StoredEntry(<<"y">>, 1, 1),
      StoredEntry(<<"y">>, 1, DEFAULT_TTL),
      StoredEntry(<<"x">>, 1, DEFAULT_TTL) }

Init ==
    /\ \E c \in StartupConfigs :
          /\ redis_client = c.client
          /\ memory_defined = c.memory
          /\ redis_up = c.up
          /\ redis_db \in IF c.client /\ c.up THEN InitialRedis ELSE {EmptyDict}
    /\ memory_cache = EmptyDict
    /\ cache_expiry = EmptyDict
    /\ now = 0
    /\ last = NoOp
    /\ expect = EmptyDict
    /\ nops = 0
    \* the gate reads EMBEDDINGS_SUPPORTED alone: import succeeded, or failed
    /\ \/ EMBEDDINGS_SUPPORTED = TRUE /\ embedder = "ClipEmbedder"
       \/ EMBEDDINGS_SUPPORTED = FALSE /\ embedder = "None"
    /\ roadmaps \in InitialStores
    /\ call = [w \in Workers |-> IdleCall]
    /\ ncalls = 0
    /\ fn = NoOp
    /\ ProgressQuiet

\* the request arrives (line 125)
Start(w, q) ==
    /\ ~Active(w)
    \* the workers are alike: the request goes to the first free one
    /\ \A u \in Workers : ~Active(u) => ~WorkerBefore(u, w)
    /\ ncalls < MaxCalls
    /\ ncalls' = ncalls + 1
    /\ call' = [v \in Workers |->
                  IF v = w
                  THEN [IdleCall EXCEPT
                          !.pc = "cache_check", !.query = q, !.n = ncalls + 1,
                          !.fromEmpty = (roadmaps = {} /\ DOMAIN Entries = {}),
                          \* the call this worker served before, if it has ended
                          !.prior = IF call[w].pc = "done"
                                    THEN [query |-> call[w].query, n |-> call[w].n,
                                          fromEmpty |-> call[w].fromEmpty,
                                          overlapped |-> call[w].overlapped,
                                          result |-> call[w].result]
                                    ELSE None,
                          !.overlapped = \E u \in Workers \ {w} : Active(u)]
                  ELSE IF Active(v) THEN [call[v] EXCEPT !.overlapped = TRUE]
                  ELSE call[v]]
    /\ UNCHANGED << cacheVars, embedVars, roadmaps, fn >>
    /\ UNCHANGED progressVars

Finish(w, c, result) == call' = [call EXCEPT ![w] = [c EXCEPT !.pc = "done", !.result = result]]
Goto(w, c, pc) == call' = [call EXCEPT ![w] = [c EXCEPT !.pc = pc]]
RowIds == { r.id : r \in roadmaps }

\* a cache check that treats every answer of get_from_cache as a miss
cache_check_skip(cached) ==
    IF IsRaise(cached) THEN GenericError ELSE PyStr(<<"miss">>)
\* what the cache check of lines 130-140 does with the value get_from_cache
\* returned: the result to return, or "miss" to go on
cache_check(cached) ==
    IF IsRaise(cached) THEN GenericError
    ELSE IF ~Truthy(cached) THEN PyStr(<<"miss">>)
    ELSE IF cached.t # "dict" THEN GenericError        \* no .get: AttributeError
    ELSE IF "id" \in DOMAIN cached.items /\ cached.items.id.t = "int"
            /\ cached.items.id.n \in RowIds
         THEN Returned(cached.items.id.n)
         ELSE PyStr(<<"miss">>)

\* a handler that goes from a cache miss straight to the generator
after_cache_check_skip_search(out) ==
    IF out = PyStr(<<"miss">>) THEN "generate" ELSE "done"
\* where the handler goes on after the cache check: line 142 on a miss
after_cache_check(out) ==
    IF out = PyStr(<<"miss">>) THEN "search" ELSE "done"

\* lines 130-140
CacheCheck(w) ==
    /\ call[w].pc = "cache_check"
    /\ LET key == QueryKey(call[w].query)
           cached == get_ret(key)
           c == [call[w] EXCEPT
                   !.held = IF HoldsUnexpired(key) THEN EntryValue(key) ELSE None,
                   !.heldRow = /\ HoldsUnexpired(key)
                               /\ EntryValue(key).t = "dict"
                               /\ EntryValue(key).items.id.n \in RowIds]
           out == cache_check(cached)
       IN  /\ IF after_cache_check(out) = "done" THEN Finish(w, c, out)
              ELSE Goto(w, c, after_cache_check(out))
           /\ memory_cache' = get_memory_cache(key)
           /\ cache_expiry' = get_cache_expiry(key)
    /\ UNCHANGED << redis_client, memory_defined, redis_db, redis_up, now, last,
                    expect, nops, embedVars, roadmaps, ncalls, fn >>
    /\ UNCHANGED progressVars

\* the three stores after save_to_cache(key, data, ttl), or left as they are
SaveToCache(key, data, ttl) ==
    /\ memory_cache' = save_memory_cache(key, data, ttl)
    /\ cache_expiry' = save_cache_expiry(key, data, ttl)
    /\ redis_db' = save_redis_db(key, data, ttl)
KeepCache == UNCHANGED << memory_cache, cache_expiry, redis_db >>
Write(key, data) == [key |-> key, data |-> data]

\* the stored rows whose embedding column holds a vector at or above the
\* threshold for the query vector q
Eligible(q) ==
    { r.id : r \in { x \in roadmaps :
                       /\ q.t = "floats" /\ x.embedding.t = "floats"
                       /\ SimGe(cosine_similarity(q.vec, x.embedding.vec),
                                SIMILARITY_THRESHOLD) } }

\* a search that leaves a row behind for every query it looks up
search_rows_insert(rows, query) ==
    rows \cup { Row(IF rows = {} THEN 1
                    ELSE 1 + (CHOOSE m \in { r.id : r \in rows } :
                                 \A r \in rows : r.id <= m),
                    PyStr(query), None) }
\* table roadmaps after the cache check and the search of lines 130-160: the
\* session only queries (.first(), .all()), nothing is added or committed
search_rows(rows, query) == rows

\* lines 142-160: the semantic search, the provider answering resp
Search(w, resp) ==
    /\ call[w].pc = "search"
    /\ LET supported == EMBEDDINGS_SUPPORTED
           q == generate_embedding(EMBEDDINGS_SUPPORTED, embedder, resp)
           similar_roadmap_id ==
               IF supported
               THEN find_similar_roadmap(EMBEDDINGS_SUPPORTED, q,
                                         Candidates(roadmaps), SIMILARITY_THRESHOLD)
               ELSE None
           key == QueryKey(call[w].query)
           c == [call[w] EXCEPT
                   !.embedCalls = IF supported THEN @ + 1 ELSE @,
                   !.searched = IF supported THEN q ELSE None,
                   !.eligible = IF supported THEN Eligible(q) ELSE {},
                   !.similar = similar_roadmap_id]
       IN  IF Truthy(similar_roadmap_id)
           THEN /\ SaveToCache(key, IdDict(similar_roadmap_id.n), DEFAULT_TTL)
                /\ Finish(w, [c EXCEPT !.wrote = @ \cup
                                 {Write(key, IdDict(similar_roadmap_id.n))}],
                          Returned(similar_roadmap_id.n))
           ELSE /\ KeepCache
                /\ Goto(w, c, "generate")
    /\ roadmaps' = search_rows(roadmaps, call[w].query)
    /\ UNCHANGED << redis_client, memory_defined, redis_up, now, last, expect,
                    nops, embedVars, ncalls, fn >>
    /\ UNCHANGED progressVars

\* after_generate calling the generator again instead of giving up
after_generate_retry(roadmap_data) ==
    IF ~Truthy(roadmap_data) THEN "generate" ELSE "persist"
\* what follows generate_roadmap (lines 163-168): the pc to go on at
after_generate(roadmap_data) ==
    IF ~Truthy(roadmap_data) THEN "done" ELSE "persist"

\* lines 162-168: the generator is invoked and returns roadmap_data
Generate(w, roadmap_data) ==
    /\ call[w].pc = "generate"
    /\ LET c == [call[w] EXCEPT !.genCalls = @ + 1, !.data = roadmap_data]
       IN  IF after_generate(roadmap_data) = "done"
           THEN Finish(w, c, GenerationFailed)
           ELSE Goto(w, c, after_generate(roadmap_data))
    /\ UNCHANGED << cacheVars, embedVars, roadmaps, ncalls, fn >>
    /\ UNCHANGED progressVars

NextId == IF roadmaps = {} THEN 1
          ELSE 1 + (CHOOSE m \in RowIds : \A i \in RowIds : i <= m)

\* RoadmapInDB taking the keyword embedding
new_roadmap_accepted(roadmap_data) ==
    IF roadmap_data.t # "dict" THEN Raise("AttributeError") ELSE None

\* the outcome of building the RoadmapInDB of lines 176-181
new_roadmap(roadmap_data) ==
    IF roadmap_data.t # "dict" THEN Raise("AttributeError")  \* no .get
    ELSE RoadmapInDB_init({"name", "description", "embedding", "query_text"})

\* the steps of roadmap_data, roadmap_data.get("steps", [])
StepsOf(roadmap_data) ==
    IF "steps" \in DOMAIN roadmap_data.items THEN roadmap_data.items.steps
    ELSE << >>
\* lines 186-212: each step is added and committed, its resources are added
\* and flushed by the next commit
add_steps_and_resources(roadmap_data) ==
    IF \E i \in DOMAIN StepsOf(roadmap_data) :
           StepsOf(roadmap_data)[i].resources > 0
    THEN ResourceInDB_flush
    ELSE None

\* lines 170-219: the embedding for the new record (the provider answering
\* resp), then the record is stored and the cache entry is written; any
\* exception ends in the generic error (lines 223-229).  The roadmaps table is
\* the part of the store kept here.
Persist(w, resp) ==
    /\ call[w].pc = "persist"
    /\ LET key == QueryKey(call[w].query)
           id == NextId
           c == [call[w] EXCEPT
                   !.embedCalls = IF EMBEDDINGS_SUPPORTED THEN @ + 1 ELSE @,
                   !.embedding = IF EMBEDDINGS_SUPPORTED
                                 THEN generate_embedding(EMBEDDINGS_SUPPORTED,
                                                         embedder, resp)
                                 ELSE None]
       IN  IF IsRaise(new_roadmap(c.data))
           THEN /\ Finish(w, c, GenericError)
                /\ KeepCache
                /\ UNCHANGED roadmaps
           ELSE IF IsRaise(add_steps_and_resources(c.data))
           THEN /\ roadmaps' = roadmaps \cup
                      {Row(id, PyStr(c.query), c.embedding)}
                /\ Finish(w, [c EXCEPT !.persisted = @ \cup {id}],
                          GenericError)
                /\ KeepCache
           ELSE /\ roadmaps' = roadmaps \cup
                      {Row(id, PyStr(c.query), c.embedding)}
                /\ SaveToCache(key, IdDict(id), DEFAULT_TTL)
                /\ Finish(w, [c EXCEPT
                                !.persisted = @ \cup {id},
                                !.wrote = @ \cup {Write(key, IdDict(id))}],
                          Returned(id))
    /\ UNCHANGED << redis_client, memory_defined, redis_up, now, last, expect,
                    nops, embedVars, ncalls, fn >>
    /\ UNCHANGED progressVars

\* reset_db.py reset_database(): every table is dropped and created anew
ResetDatabase ==
    /\ roadmaps # {}
    /\ roadmaps' = {}
    /\ UNCHANGED << cacheVars, embedVars, call, ncalls, fn >>
    /\ roadmap_steps' = {} /\ user_roadmap_progress' = {} /\ progress_seq' = 1
    /\ UNCHANGED progress_out

Next ==
    \/ \E w \in Workers, q \in Queries : Start(w, q)
    \/ \E w \in Workers : CacheCheck(w)
    \/ \E w \in Workers, resp \in GateResponses : Search(w, resp)
    \/ \E w \in Workers, d \in GeneratorOutcomes : Generate(w, d)
    \/ \E w \in Workers, resp \in GateResponses : Persist(w, resp)
    \/ Tick(MaxGateTime)
    \/ ResetDatabase

Spec == Init /\ [][Next]_vars

(***************************************************************************)
(* C1 .. C5: resolve                                                       *)
(***************************************************************************)
GoodVector == PyVec(Pad(<<3, 4>>))
Ended(c) == c.pc = "done"
IsReturned(r) == r.t = "roadmap"

\* C1: in a sequential run from an empty record store and an empty cache, with
\* the embedding provider and the generator available, the first resolve(q)
\* invokes the generator exactly once and persists exactly one record carrying
\* the query vector; a second resolve(q), before the cache entry expires,
\* returns that same record and invokes neither the provider nor the generator.
C1_GenerateOnceThenServeFromCache ==
    \A w \in Workers :
        LET c == call[w]
        IN  /\ (/\ Ended(c) /\ c.n = 1 /\ c.fromEmpty /\ ~c.overlapped
                /\ EMBEDDINGS_SUPPORTED
                /\ c.searched = GoodVector /\ c.embedding = GoodVector
                /\ c.data = UsableData)
               => /\ c.genCalls = 1
                  /\ IsReturned(c.result)
                  /\ c.persisted = {c.result.id}
                  /\ \A r \in roadmaps : r.id \in c.persisted
                                            => r.embedding = c.searched
            /\ (/\ Ended(c) /\ c.n = 2 /\ ~c.overlapped /\ c.prior # None
                /\ c.prior.n = 1 /\ c.prior.fromEmpty /\ ~c.prior.overlapped
                /\ c.prior.query = c.query /\ IsReturned(c.prior.result)
                /\ c.held # None)
               => /\ c.result = c.prior.result
                  /\ c.embedCalls = 0 /\ c.genCalls = 0

\* C2: if resolve(B) misses the cache and a stored record A has a vector whose
\* similarity to B's query vector is at or above the threshold, resolve(B)
\* returns record A, does not invoke the generator and adds no record.
C2_SemanticMatchReturnsStored ==
    \A w \in Workers :
        LET c == call[w]
        IN  (c.eligible # {} /\ c.pc \in {"generate", "persist", "done"})
            => /\ Ended(c)
               /\ IsReturned(c.result) /\ c.result.id \in c.eligible
               /\ c.genCalls = 0
               /\ c.persisted = {}

C4_GeneratorFailureEndsInError ==
    \A w \in Workers :
        LET c == call[w]
        IN  (c.genCalls > 0 /\ c.data # UsableData /\ c.pc # "persist")
            => /\ Ended(c)
               /\ IsError(c.result)
               /\ c.genCalls = 1
               /\ c.persisted = {}
               /\ c.wrote = {}

\* a call ended in the generation failure after the generator returned None
C4_Witness ==
    \E w \in Workers :
        /\ Ended(call[w]) /\ call[w].genCalls = 1 /\ call[w].data = None
        /\ call[w].result = GenerationFailed

\* C5: two overlapping resolve calls for the same query text that both missed
\* the cache and the search and both got content from the generator both
\* persist a record, so that two records exist for the query, and neither ends
\* in error.
C5_OverlappingCallsBothPersist ==
    \A w, u \in Workers :
        (/\ w # u
         /\ Ended(call[w]) /\ Ended(call[u])
         /\ call[w].overlapped /\ call[u].overlapped
         /\ call[w].query = call[u].query
         /\ call[w].data = UsableData /\ call[u].data = UsableData)
        => /\ IsReturned(call[w].result) /\ IsReturned(call[u].result)
           /\ call[w].persisted # {} /\ call[u].persisted # {}
           /\ call[w].persisted # call[u].persisted

(***************************************************************************)
(* C9, C10                                                                 *)
(***************************************************************************)
\* C9: embed(text) never raises; it returns a vector in every state of the
\* embedding source, and whenever the source did not deliver a well-formed
\* embedding (unconfigured, unreachable, erroring, malformed response) that
\* vector is the all-zero vector of 512 components.
C9_EmbedFailsOpenToSentinel ==
    fn.op = "generate_embedding" =>
        /\ ~IsRaise(fn.out)
        /\ IsVector(fn.out)
        /\ (~(fn.live /\ fn.resp \in GoodResponses) => fn.out = Sentinel)

\* C10: similarity with a zero vector on either side is 0, similarity with an
\* empty vector on either side is 0, and no input raises a division error.
C10_ZeroAndEmptyGiveZero ==
    fn.op = "cosine_similarity" =>
        /\ ~IsRaise(fn.out)
        /\ (fn.a.dim = 0 \/ fn.b.dim = 0 \/ IsZero(fn.a) \/ IsZero(fn.b))
               => fn.out.num = 0

\* a non-zero vector was compared with a zero vector of the same length
C10_Witness ==
    /\ fn.op = "cosine_similarity"
    /\ fn.a.dim = EmbedDim /\ fn.b.dim = EmbedDim
    /\ ~IsZero(fn.a) /\ IsZero(fn.b)
    /\ fn.out = SimZero

(***************************************************************************)
(* C6, C7, C8                                                              *)
(***************************************************************************)
\* C6: no Result Cache operation raises to its caller, in any startup
\* configuration and on any backing-store failure; when the store gives no
\* answer get returns none, put and delete return false, clear_prefix returns 0.
C6_CacheNeverRaises ==
    last.op # "none" =>
        /\ ~IsRaise(last.ret)
        /\ ~last.answered =>
              last.ret = CASE last.op = "get" -> None
                           [] last.op = "clear" -> PyInt(0)
                           [] OTHER -> PyFalse

\* the value a get hands back for a stored v: v itself from the in-process
\* store, the JSON round trip of v from the networked store
Stored(v) == IF redis_client THEN json_loads(json_dumps(v)) ELSE v

\* C7 as stated: for every key, value and ttl > 0, in every configuration, a
\* get(k) before ttl seconds have passed since put(k, v, ttl) returns v, and a
\* get(k) more than ttl seconds after it, with no put in between, returns none
\* (a get that raises is the matter of C6 and is left aside here).
C7_RoundTripAsStated ==
    (/\ last.op = "get" /\ ~IsRaise(last.ret)
     /\ last.key \in DOMAIN expect /\ expect[last.key].ttl > 0) =>
        LET e == expect[last.key]
        IN  /\ last.at < e.at + e.ttl => last.ret = e.val
            /\ last.at > e.at + e.ttl => last.ret = None

\* C7 amended: when put(k, v, ttl) with ttl > 0 reported success and the store
\* answers the get, a get(k) before ttl seconds have passed (no delete,
\* clear_prefix or put of k in between) returns v from the in-process store and
\* the JSON round trip of v from the networked store; a get(k) more than ttl
\* seconds after the put returns none.
C7_RoundTripWhenStoreWorks ==
    (/\ last.op = "get" /\ last.answered
     /\ last.key \in DOMAIN expect
     /\ expect[last.key].ok /\ expect[last.key].ttl > 0) =>
        LET e == expect[last.key]
        IN  /\ last.at < e.at + e.ttl => last.ret = Stored(e.val)
            /\ last.at > e.at + e.ttl => last.ret = None

\* a value was put into the networked store and read back before its expiry
C7_Witness ==
    /\ last.op = "get" /\ redis_client /\ last.answered
    /\ last.key \in DOMAIN expect /\ expect[last.key].ok
    /\ last.at < expect[last.key].at + expect[last.key].ttl
    /\ last.ret = IdDict(1)

\* C8: a clear_prefix(p) that the store answers removes exactly the entries
\* whose key starts with p followed by ":", returns their number, and leaves
\* every other entry unchanged.
C8_ClearRemovesExactlyPrefix ==
    (last.op = "clear" /\ last.answered) =>
        LET mine == { k \in DOMAIN last.before : IsPrefix(last.key \o <<":">>, k) }
        IN  /\ DOMAIN Entries = DOMAIN last.before \ mine
            /\ last.ret = PyInt(Cardinality(mine))
            /\ \A k \in DOMAIN Entries : Entries[k] = last.before[k]

(***************************************************************************)
(* C11, C12, C19: cosine_similarity                                        *)
(***************************************************************************)
\* C11: similarity is commutative: for all vectors a and b, similarity(a, b)
\* equals similarity(b, a).
C11_SimilarityCommutes ==
    fn.op = "cosine_similarity" => fn.out = fn.rev

\* two different non-zero vectors of different magnitude were compared and the
\* result is not 0
C11_Witness ==
    /\ fn.op = "cosine_similarity"
    /\ fn.a # fn.b /\ ~IsZero(fn.a) /\ ~IsZero(fn.b)
    /\ SumProd(fn.a, fn.a) # SumProd(fn.b, fn.b)
    /\ ~IsRaise(fn.out) /\ fn.out.num # 0

\* C12: for all vectors a and b of equal length, similarity(a, b) lies between
\* 0 and 1 inclusive; it is never negative, also when components of a and b
\* have opposite signs.
C12_SimilarityInUnitRange ==
    (fn.op = "cosine_similarity" /\ fn.a.dim = fn.b.dim) =>
        /\ ~IsRaise(fn.out)
        /\ SimGe(fn.out, SimZero)
        /\ SimGe(DivideNoCheck(1, 1), fn.out)

\* C19: similarity of two non-empty vectors of different lengths is an error,
\* not a similarity value.
C19_LengthMismatchIsError ==
    (/\ fn.op = "cosine_similarity"
     /\ fn.a.dim > 0 /\ fn.b.dim > 0 /\ fn.a.dim # fn.b.dim) => IsRaise(fn.out)

(***************************************************************************)
(* C13, C14, C15: find_similar_roadmap                                     *)
(***************************************************************************)
\* the candidates of the latest search that have a vector, and their
\* similarity to the query vector
WithVector == { i \in 1..Len(fn.cands) : Truthy(fn.cands[i].embedding) }
SimOf(i) == py_cosine(fn.q, fn.cands[i].embedding)
IsMaxSim(i) == \A j \in WithVector : SimGe(SimOf(i), SimOf(j))

\* C13: find_best_match returns none when no candidate has a vector, and none
\* when the similarity of every candidate to the query vector is strictly
\* below the threshold.
C13_NoneWithoutCandidateAboveThreshold ==
    fn.op = "find_similar_roadmap" =>
        /\ WithVector = {} => fn.out = None
        /\ (\A i \in WithVector : SimGt(fn.thr, SimOf(i))) => fn.out = None

\* candidates with vectors were searched, all of them below the threshold
C13_Witness ==
    /\ fn.op = "find_similar_roadmap"
    /\ Cardinality(WithVector) = 2
    /\ \A i \in WithVector : SimGt(fn.thr, SimOf(i)) /\ SimGt(SimOf(i), SimZero)
    /\ fn.out = None

\* C14: whenever the maximum similarity over the candidates that have a vector
\* is at or above the threshold (for every threshold in [0,1], 0 included),
\* find_best_match returns the id of a candidate that attains that maximum.
\* All-zero vectors, which C15 keeps from matching, are left aside: the query
\* vector is not all-zero and the maximum is attained by a candidate whose
\* vector is not all-zero.
C14_ReturnsMaxAtOrAboveThreshold ==
    (/\ fn.op = "find_similar_roadmap"
     /\ ~IsZero(fn.q.vec)
     /\ \E i \in WithVector : /\ ~IsZero(fn.cands[i].embedding.vec)
                              /\ IsMaxSim(i) /\ SimGe(SimOf(i), fn.thr))
    => \E i \in WithVector : IsMaxSim(i) /\ fn.out = PyInt(fn.cands[i].id)

\* C15: the semantic search never returns a candidate whose vector is all-zero,
\* and returns none when the query vector is all-zero, for every threshold in
\* [0,1] and every candidate set.
C15_ZeroVectorNeverMatches ==
    fn.op = "find_similar_roadmap" =>
        /\ IsZero(fn.q.vec) => fn.out = None
        /\ \A i \in 1..Len(fn.cands) :
              fn.out = PyInt(fn.cands[i].id) =>
                  /\ fn.cands[i].embedding.t = "floats"
                  /\ ~IsZero(fn.cands[i].embedding.vec)

\* a search at threshold 0 over an all-zero candidate and a non-zero one
\* returned the non-zero one
C15_Witness ==
    /\ fn.op = "find_similar_roadmap" /\ fn.thr = SimZero
    /\ Len(fn.cands) = 2
    /\ fn.cands[1].embedding = PyVec(V(<<0, 0>>))
    /\ fn.out = PyInt(2)

(***************************************************************************)
(* C16: the order of the steps of resolve                                  *)
(***************************************************************************)
\* the generator has been or is about to be invoked in call c
AtOrPastGenerate(c) == c.pc = "generate" \/ c.genCalls > 0
\* an ended call stays as it ended until its worker takes the next request
StaysEnded(w) ==
    Ended(call[w]) => (call[w]' = call[w] \/ call[w]'.n > call[w].n)

\* C16 as stated: in every configuration of the embedding provider the
\* generator is invoked only after a cache miss followed by an embedding
\* computation and a semantic search that returned no match.
C16_GenerateOnlyAfterSearchAlways ==
    \A w \in Workers :
        AtOrPastGenerate(call[w]) =>
            /\ call[w].embedCalls >= 1
            /\ call[w].searched # None
            /\ call[w].similar = None

\* C16 amended: where embeddings are supported the generator is invoked only
\* after a cache miss followed by an embedding computation and a semantic
\* search that returned no match; where they are not supported it is invoked
\* after the cache miss with no embedding computed and no search made; a call
\* that returned a cache hit or a match never invoked the generator; and an
\* ended call (DONE or ERROR) takes no further step.
C16_GenerateOnlyAfterSearchWhenSupported ==
    /\ [](\A w \in Workers :
            LET c == call[w]
            IN  /\ (AtOrPastGenerate(c) /\ EMBEDDINGS_SUPPORTED) =>
                       /\ c.embedCalls >= 1
                       /\ c.searched # None
                       /\ c.similar = None
                /\ (c.pc = "generate" /\ ~EMBEDDINGS_SUPPORTED) =>
                       c.embedCalls = 0 /\ c.searched = None
                /\ (c.pc = "search" \/ AtOrPastGenerate(c)) =>
                       ~(c.heldRow)
                /\ Truthy(c.similar) => c.genCalls = 0)
    /\ [][\A w \in Workers : StaysEnded(w)]_vars

\* a call reached the generator after an embedding and a search without match
C16_Witness ==
    \E w \in Workers :
        /\ EMBEDDINGS_SUPPORTED /\ call[w].genCalls = 1
        /\ call[w].embedCalls >= 1 /\ call[w].searched = GoodVector
        /\ call[w].similar = None /\ Ended(call[w])

(***************************************************************************)
(* C17: no persisted effect before the generator is invoked                *)
(***************************************************************************)
\* worker w takes a step of its call that comes before the return of the
\* generator: the cache check, the search, or the invocation itself
StepsBeforeGenerated(w) ==
    /\ call[w].pc \in {"cache_check", "search", "generate"}
    /\ call[w]'.pc # call[w].pc

\* C17: at every point of a resolve execution before the generator has been
\* invoked the record store is as it was at the start of the call: no step of
\* the call up to and including the invocation of the generator changes the
\* record store, and a call that has not invoked the generator has persisted
\* nothing.
C17_NoStoreEffectBeforeGenerate ==
    /\ [][\A w \in Workers : StepsBeforeGenerated(w) => roadmaps' = roadmaps]_vars
    /\ [](\A w \in Workers : call[w].genCalls = 0 => call[w].persisted = {})

\* a call has made its search over a store that holds records and stands
\* before the generator
C17_Witness ==
    \E w \in Workers :
        /\ call[w].pc = "generate" /\ call[w].embedCalls = 1
        /\ roadmaps # {}

(***************************************************************************)
(* C18: cache and embedding failures are not errors of resolve             *)
(***************************************************************************)
\* C18: a failure of the cache backing store or of the embedding provider
\* never makes resolve end in error: in every startup configuration a call
\* ends in error only after the generator was invoked, and a call that found
\* a matching record, or persisted the generated content, returns a record.
C18_OnlyGenerationErrorsSurface ==
    \A w \in Workers :
        LET c == call[w]
        IN  Ended(c) =>
              /\ IsError(c.result) => c.genCalls >= 1
              /\ (Truthy(c.similar) \/ c.persisted # {}) => IsReturned(c.result)

(***************************************************************************)
(* C20: the in-process store as fallback                                   *)
(***************************************************************************)
\* C20: in every startup configuration without a usable networked store
\* (disabled by configuration, client library missing, connection failing at
\* startup) the Result Cache behaves as the in-process store: put(k, v, ttl)
\* with ttl > 0 reports success, and a get(k) before expiry returns v.
C20_FallbackActsAsInProcessStore ==
    /\ (last.op = "put" /\ last.ttl > 0) => last.ret = PyTrue
    /\ (/\ last.op = "get" /\ last.key \in DOMAIN expect
        /\ expect[last.key].ttl > 0
        /\ last.at < expect[last.key].at + expect[last.key].ttl)
       => last.ret = expect[last.key].val

(***************************************************************************)
(* C21: ties in find_similar_roadmap                                       *)
(***************************************************************************)
\* C21: when several candidates share the maximum similarity and that maximum
\* is at or above the threshold, find_best_match returns the one scanned
\* first: the candidate returned has a similarity strictly greater than that
\* of every candidate scanned before it, and at least that of every other.
C21_FirstSeenWinsTies ==
    fn.op = "find_similar_roadmap" =>
        \A i \in 1..Len(fn.cands) :
            fn.out = PyInt(fn.cands[i].id) =>
                /\ i \in WithVector
                /\ IsMaxSim(i)
                /\ \A j \in WithVector : j < i => SimGt(SimOf(i), SimOf(j))

\* two candidates shared the maximum, at or above the threshold, and the
\* first of them was returned
C21_Witness ==
    /\ fn.op = "find_similar_roadmap"
    /\ Len(fn.cands) = 2 /\ WithVector = {1, 2}
    /\ SimOf(1) = SimOf(2) /\ SimGt(SimOf(1), SimZero)
    /\ SimGe(SimOf(1), fn.thr)
    /\ fn.out = PyInt(1)

GotExpired ==
    /\ last.op = "get"
    /\ last.key \in DOMAIN last.before
    /\ last.before[last.key].exp <= last.at
\* key k leaves memory_cache in this step through an operation on it
RemovedByOperation(k) ==
    /\ nops' = nops + 1
    /\ \/ last'.op = "get" /\ last'.key = k /\ last'.before[k].exp <= last'.at
       \/ last'.op = "delete" /\ last'.key = k
       \/ last'.op = "clear" /\ IsPrefix(last'.key \o <<":">>, k)

\* key k stays in memory_cache in this step with another value or expiry
EntryChanged(k) ==
    \/ memory_cache'[k] # memory_cache[k]
    \/ k \in DOMAIN cache_expiry /\ cache_expiry'[k] # cache_expiry[k]

\* C24: in the in-process store the passage of time alone removes nothing: an
\* entry stays in the mapping after its expiry until a get of that key, a
\* delete, a clear_prefix or an overwriting put; a get of an expired key
\* returns none and removes the key from both the value mapping and the
\* expiry mapping.
C24_ExpiredEntriesLeaveOnLookup ==
    /\ [](GotExpired =>
             /\ last.ret = None
             /\ last.key \notin DOMAIN memory_cache
             /\ last.key \notin DOMAIN cache_expiry)
    /\ [][/\ now' # now => /\ memory_cache' = memory_cache
                           /\ cache_expiry' = cache_expiry
          /\ \A k \in DOMAIN memory_cache :
                /\ k \notin DOMAIN memory_cache' => RemovedByOperation(k)
                /\ (k \in DOMAIN memory_cache' /\ EntryChanged(k)) =>
                       (last'.op = "put" /\ last'.key = k)]_vars

\* an entry was still in the mapping after its expiry when a get removed it
C24_Witness ==
    /\ GotExpired
    /\ last.before[last.key].exp < last.at
    /\ last.ret = None
    /\ last.key \notin DOMAIN memory_cache

\* C25: in the in-process store, after any sequence of put, get, delete and
\* clear_prefix operations and any passage of time, the keys of the value
\* mapping are the keys of the expiry mapping.
C25_SameKeysInBothMappings ==
    DOMAIN memory_cache = DOMAIN cache_expiry

\* two entries were put, time passed, and one of them is past its expiry
C25_Witness ==
    /\ Cardinality(DOMAIN memory_cache) = 2
    /\ now > 0
    /\ \E k \in DOMAIN cache_expiry : cache_expiry[k] <= now

\* C29: in the in-process store, after put(k, v, ttl) at time t0 with no later
\* delete, clear_prefix or put of k, get(k) at time t returns v exactly when
\* t < t0 + ttl; at t = t0 + ttl and later it returns none, so that a put with
\* a ttl of 0 or less is never readable.
C29_ReadableStrictlyBeforeExpiry ==
    (last.op = "get" /\ last.key \in DOMAIN expect) =>
        LET e == expect[last.key]
        IN  IF last.at < e.at + e.ttl THEN last.ret = e.val
            ELSE last.ret = None

\* a get at the very second of the expiry of a put with positive ttl found
\* nothing
C29_Witness ==
    /\ last.op = "get" /\ last.key \in DOMAIN expect
    /\ expect[last.key].ttl > 0
    /\ last.at = expect[last.key].at + expect[last.key].ttl
    /\ last.ret = None

(***************************************************************************)
(* C27: a call that ends in error                                          *)
(***************************************************************************)
\* C27: if resolve ends in error, the record store is the same as before the
\* call: the step that ends a call in error adds no record, and the call has
\* added none before, so a persistence failure after a successful generation
\* leaves no partially persisted roadmap for a later search.
C27_ErrorLeavesStoreUnchanged ==
    /\ [](\A w \in Workers :
             (Ended(call[w]) /\ IsError(call[w].result))
                 => call[w].persisted = {})
    /\ [][\A w \in Workers :
             (call[w].pc # "done" /\ call'[w].pc = "done"
                /\ IsError(call'[w].result))
                 => roadmaps' = roadmaps]_vars

\* the generator gave a roadmap with a step and a resource, persisting failed
\* and the roadmaps are those the store started with
C27_Witness ==
    \E w \in Workers :
        /\ Ended(call[w]) /\ call[w].result = GenericError
        /\ call[w].data = DataWithResource
        /\ call[w].persisted = {}
        /\ roadmaps \in InitialStores \ {{}}

(***************************************************************************)
(* C30: the progress report                                                *)
(***************************************************************************)
\* the latest request was a progress report that found steps
Reported ==
    /\ progress_out # None
    /\ progress_out.op = "get_roadmap_progress"
    /\ progress_out.ret.t = "dict"

\* C30: after any sequence of step-progress updates by a user on any roadmaps,
\* get_roadmap_progress for a roadmap reports completed_steps no greater than
\* total_steps and progress_percent between 0 and 100, also when another
\* roadmap has a step with the same step id.
C30_ProgressWithinTotal ==
    Reported =>
        /\ progress_out.ret.completed_steps <= progress_out.ret.total_steps
        /\ progress_out.ret.progress_percent \in 0..100

====
